---- MODULE Spec2Model ----
(***************************************************************************)
(* Interrupt-driven USART transmit driver (STM32L4xx).                     *)
(*                                                                         *)
(* CircularBuffer<SIZE> (usart.h) and UsartDriver<BUFFER_SIZE>             *)
(* (usart.cpp): the foreground enqueues bytes, the LPUART1 transmit        *)
(* interrupt dequeues them and writes the transmit data register.          *)
(*                                                                         *)
(* The foreground is modelled one volatile access at a time (pc); the      *)
(* interrupt handler runs to completion above the foreground, so it is one *)
(* atomic action that may fire between any two foreground steps.           *)
(***************************************************************************)
EXTENDS Integers, Sequences, FiniteSets, TLC

VARIABLES
    cap,                \* template parameter SIZE / BUFFER_SIZE of the instance
    peripheralType,     \* UsartDriver::peripheralType
    buffer,             \* CircularBuffer::buffer
    head,               \* CircularBuffer::head
    tail,               \* CircularBuffer::tail
    transmissionActive, \* UsartDriver::transmissionActive
    g_lpuart1Instance,  \* the registered instance, or NULL
    txeie,              \* LPUART1 TXE interrupt enabled (CR1.TXEIE and NVIC)
    txe,                \* LPUART1 ISR.TXE: the transmit data register is empty
    pc,                 \* position of the foreground
    op,                 \* the public operation the foreground is in
    loc,                \* locals of the foreground call chain
    res,                \* what the last foreground operation returned
    call,               \* state of the driver when the current/last call began
    queue,              \* history: bytes accepted and not yet retrieved
    accepted,           \* history: bytes accepted from driver send operations
    txLog,              \* history: bytes passed to transmitByte
    offered,            \* history: bytes offered to driver send operations
    irqHist,            \* history: "none", "between" or "during" (see Observed)
    unread,             \* history: slots put has written and get has not read
    second              \* a second driver instance on LPUART1 (its fields)

vars == <<cap, peripheralType, buffer, head, tail, transmissionActive,
          g_lpuart1Instance, txeie, txe, pc, op, loc, res, call,
          queue, accepted, txLog, offered, irqHist, unread, second>>

bufVars == <<buffer, head, tail>>
hwVars == <<g_lpuart1Instance, txeie, txe>>
histVars == <<queue, accepted, txLog, offered, irqHist, unread>>
ctlVars == <<pc, op, loc, res, call>>

----------------------------------------------------------------------------
(* Bounds of the model *)

\* largest byte value the foreground offers (bytes are 1..MaxByte)
MaxByte == 2
\* total number of bytes offered to the driver's send operations in one run
MaxOffered == 4
\* longest array handed to sendData
MaxLen == 4
\* number of transmitByte calls followed in one run
MaxTx == 4
\* bytes offered to the first instance in a run with two instances
MaxOfferedReg == 2
\* bytes offered in a run that also calls clearBuffer
MaxOfferedC == 2
\* bytes offered in a run under fairness
MaxOfferedF == 2
\* bytes offered in a run over all the buffer sizes
MaxOfferedD == 2
\* a read outside the registered object yields a value of 0..MaxArb
MaxArb == 1

\* capacities (SIZE) of the stand-alone ring buffer
BufCapacities == {1, 2, 4}
\* capacities (BUFFER_SIZE) of the driver under interleaving
DrvCapacities == {2, 4}

Bytes == 1..MaxByte

----------------------------------------------------------------------------
(* Program constants *)

\* uint16_t head, tail: indices are 16-bit words
Word == 65536
\* uint8_t buffer[SIZE] has no initialiser: a slot never written is indeterminate
Uninit == -1
NULL == "nullptr"
PeripheralTypes == {"USART_1", "USART_2", "USART_3", "LPUART_1"}

----------------------------------------------------------------------------
(* Integer helpers *)

RECURSIVE BitAnd(_, _)
\* a & b on non-negative integers
BitAnd(a, b) ==
    IF a = 0 \/ b = 0 THEN 0
    ELSE (a % 2) * (b % 2) + 2 * BitAnd(a \div 2, b \div 2)

\* static constexpr uint16_t MASK = SIZE - 1
MASK == cap - 1

\* (expr) & MASK where expr is an int built from uint16_t operands: in two's
\* complement only the low 16 bits of expr meet MASK (MASK < 2^16)
AndMask(x) == BitAnd(x % Word, MASK)

----------------------------------------------------------------------------
(* CircularBuffer observers *)

isEmpty == head = tail
isFull == AndMask(head + 1) = tail
\* variant: the slot kept free is not subtracted
availableSpace_NoFreeSlot == AndMask(tail - head) % Word

availableSpace == AndMask(tail - head - 1) % Word
size == AndMask(head - tail) % Word

(* UsartDriver observers *)
isTransmissionActive == transmissionActive
getAvailableSpace == availableSpace
getQueueSize == size

----------------------------------------------------------------------------
(* Foreground locals and bookkeeping *)

NoLoc == [data |-> 0, next_head |-> 0, success |-> FALSE, gdata |-> 0,
          tmp |-> 0, arg |-> <<>>, i |-> 0, sent |-> 0]
NoRes == [op |-> "none", ok |-> FALSE, n |-> 0, data |-> 0]
NoCall == [active |-> FALSE, head |-> 0, tail |-> 0, buffer |-> <<>>,
           space |-> 0, size |-> 0, queue |-> <<>>, txLen |-> 0, accLen |-> 0,
           arg |-> <<>>, null |-> FALSE, irq |-> FALSE, putIdle |-> FALSE]

\* snapshot taken when a foreground operation is entered with the bytes arg
\* (irq: an interrupt has preempted the call; putIdle: a put of the call has
\* succeeded while the state was Idle)
Snapshot(arg) ==
    [active |-> transmissionActive, head |-> head, tail |-> tail,
     buffer |-> buffer, space |-> availableSpace, size |-> size,
     queue |-> queue, txLen |-> Len(txLog), accLen |-> Len(accepted),
     arg |-> arg, null |-> FALSE, irq |-> FALSE, putIdle |-> FALSE]

\* the second instance as constructed: Idle, empty, its slots indeterminate
\* (replaced: the registration its own registration overwrote, for the record)
NoSecond == [buffer |-> [i \in 0..(cap - 1) |-> Uninit], head |-> 0, tail |-> 0,
             transmissionActive |-> FALSE, replaced |-> NULL]

\* reading a slot: an indeterminate slot reads as any byte
SlotValues(i) == IF buffer[i] = Uninit THEN Bytes ELSE {buffer[i]}

InitWith(caps, types) ==
    /\ cap \in caps
    /\ peripheralType \in types
    /\ buffer = [i \in 0..(cap - 1) |-> Uninit]
    /\ head = 0
    /\ tail = 0
    /\ transmissionActive = FALSE
    /\ g_lpuart1Instance = NULL
    /\ txeie = FALSE
    /\ txe = TRUE
    /\ pc = "idle"
    /\ op = "none"
    /\ loc = NoLoc
    /\ res = NoRes
    /\ call = NoCall
    /\ queue = <<>>
    /\ accepted = <<>>
    /\ txLog = <<>>
    /\ offered = 0
    /\ irqHist = "none"
    /\ unread = {}
    /\ second = NoSecond

----------------------------------------------------------------------------
(* Returning to the caller *)

\* the public operation returns r to the application
Ret(r) ==
    /\ pc' = "idle"
    /\ op' = "none"
    /\ loc' = NoLoc
    /\ res' = r

\* transmitByte(data): the LPUART variant writes TDR, which clears TXE; the
\* USART_1..3 variants write nothing
transmitByte(d) ==
    /\ Len(txLog) < MaxTx
    /\ txLog' = Append(txLog, d)
    /\ txe' = IF peripheralType = "LPUART_1" THEN FALSE ELSE txe

\* startTransmission returns into sendByte / sendData, which return
StartReturn ==
    IF op = "sendByte"
    THEN Ret([NoRes EXCEPT !.op = "sendByte", !.ok = loc.success])
    ELSE Ret([NoRes EXCEPT !.op = "sendData", !.n = loc.sent])

\* variant: sendData counts a rejected byte as sent
PutReturn_CountsRejected(ok) ==
    CASE op = "put" ->
            Ret([NoRes EXCEPT !.op = "put", !.ok = ok])
      [] op = "sendByte" ->
            /\ pc' = "sb_chk"
            /\ loc' = [loc EXCEPT !.success = ok]
            /\ UNCHANGED <<op, res>>
      [] op = "sendData" ->
            /\ pc' = IF ok THEN "sd_loop" ELSE "sd_chk"
            /\ loc' = [loc EXCEPT !.sent = (@ + 1) % Word,
                                  !.i = (@ + 1) % Word]
            /\ UNCHANGED <<op, res>>

\* txBuffer.put returns ok into its caller
PutReturn(ok) ==
    CASE op = "put" ->
            Ret([NoRes EXCEPT !.op = "put", !.ok = ok])
      [] op = "sendByte" ->
            /\ pc' = "sb_chk"
            /\ loc' = [loc EXCEPT !.success = ok]
            /\ UNCHANGED <<op, res>>
      [] op = "sendData" ->
            /\ IF ok
               THEN /\ pc' = "sd_loop"
                    /\ loc' = [loc EXCEPT !.sent = (@ + 1) % Word,
                                          !.i = (@ + 1) % Word]
               ELSE /\ pc' = "sd_chk"
                    /\ loc' = loc
            /\ UNCHANGED <<op, res>>

\* txBuffer.get returns ok (and data d) into its caller
GetReturn(ok, d) ==
    IF op = "get"
    THEN Ret([NoRes EXCEPT !.op = "get", !.ok = ok, !.data = d])
    ELSE IF ok
         THEN /\ pc' = "st_tx"
              /\ UNCHANGED <<op, loc, res>>
         ELSE StartReturn

----------------------------------------------------------------------------
(* CircularBuffer::put, one access per step *)

\* uint16_t next_head = (head + 1) & MASK;
put_1 ==
    /\ pc = "put_1"
    /\ loc' = [loc EXCEPT !.next_head = AndMask(head + 1)]
    /\ pc' = "put_2"
    /\ UNCHANGED <<cap, peripheralType, second, bufVars, transmissionActive,
                   hwVars, op, res, call, histVars>>

\* variant: the full test is one slot early
put_2_EarlyFull ==
    /\ pc = "put_2"
    /\ IF AndMask(loc.next_head + 1) = tail \/ loc.next_head = tail
       THEN PutReturn(FALSE)
       ELSE /\ pc' = "put_3"
            /\ UNCHANGED <<op, loc, res>>
    /\ UNCHANGED <<cap, peripheralType, second, bufVars, transmissionActive,
                   hwVars, call, histVars>>

\* variant: there is no full test
put_2_NoFullTest ==
    /\ pc = "put_2"
    /\ pc' = "put_3"
    /\ UNCHANGED <<op, loc, res>>
    /\ UNCHANGED <<cap, peripheralType, second, bufVars, transmissionActive,
                   hwVars, call, histVars>>

\* if (next_head == tail) return false;
put_2 ==
    /\ pc = "put_2"
    /\ IF loc.next_head = tail
       THEN PutReturn(FALSE)
       ELSE /\ pc' = "put_3"
            /\ UNCHANGED <<op, loc, res>>
    /\ UNCHANGED <<cap, peripheralType, second, bufVars, transmissionActive,
                   hwVars, call, histVars>>

\* variant: the byte is stored in the slot after head
put_3_NextSlot ==
    /\ pc = "put_3"
    /\ buffer' = [buffer EXCEPT ![loc.next_head] = loc.data]
    /\ unread' = unread \cup {loc.next_head}
    /\ pc' = "put_4"
    /\ UNCHANGED <<cap, peripheralType, second, head, tail, transmissionActive,
                   hwVars, op, loc, res, call, queue, accepted, txLog, offered,
                   irqHist>>

\* buffer[head] = data;
put_3 ==
    /\ pc = "put_3"
    /\ buffer' = [buffer EXCEPT ![head] = loc.data]
    /\ unread' = unread \cup {head}
    /\ pc' = "put_4"
    /\ UNCHANGED <<cap, peripheralType, second, head, tail, transmissionActive,
                   hwVars, op, loc, res, call, queue, accepted, txLog, offered,
                   irqHist>>

\* variant: a successful put also advances the consumer index
put_4_MovesTail ==
    /\ pc = "put_4"
    /\ head' = loc.next_head
    /\ tail' = AndMask(tail + 1)
    /\ queue' = Append(queue, loc.data)
    /\ accepted' = IF op = "put" THEN accepted ELSE Append(accepted, loc.data)
    /\ call' = [call EXCEPT !.putIdle = @ \/ ~transmissionActive]
    /\ PutReturn(TRUE)
    /\ UNCHANGED <<cap, peripheralType, second, buffer, transmissionActive,
                   hwVars, txLog, offered, irqHist, unread>>

\* head = next_head; return true;
put_4 ==
    /\ pc = "put_4"
    /\ head' = loc.next_head
    /\ queue' = Append(queue, loc.data)
    /\ accepted' = IF op = "put" THEN accepted ELSE Append(accepted, loc.data)
    /\ call' = [call EXCEPT !.putIdle = @ \/ ~transmissionActive]
    /\ PutReturn(TRUE)
    /\ UNCHANGED <<cap, peripheralType, second, buffer, tail,
                   transmissionActive, hwVars, txLog, offered, irqHist,
                   unread>>

----------------------------------------------------------------------------
(* CircularBuffer::get in the foreground, one access per step *)

\* if (head == tail) return false;
get_1 ==
    /\ pc = "get_1"
    /\ IF head = tail
       THEN GetReturn(FALSE, 0)
       ELSE /\ pc' = "get_2"
            /\ UNCHANGED <<op, loc, res>>
    /\ UNCHANGED <<cap, peripheralType, second, bufVars, transmissionActive,
                   hwVars, call, histVars>>

\* data = buffer[tail];
get_2 ==
    /\ pc = "get_2"
    /\ \E d \in SlotValues(tail) : loc' = [loc EXCEPT !.gdata = d]
    /\ unread' = unread \ {tail}
    /\ pc' = "get_3"
    /\ UNCHANGED <<cap, peripheralType, second, bufVars, transmissionActive,
                   hwVars, op, res, call, queue, accepted, txLog, offered,
                   irqHist>>

\* tail = (tail + 1) & MASK;   the read of tail
get_3 ==
    /\ pc = "get_3"
    /\ loc' = [loc EXCEPT !.tmp = tail]
    /\ pc' = "get_4"
    /\ UNCHANGED <<cap, peripheralType, second, bufVars, transmissionActive,
                   hwVars, op, res, call, histVars>>

\* variant: the consumer index is advanced without the mask
get_4_NoWrap ==
    /\ pc = "get_4"
    /\ tail' = loc.tmp + 1
    /\ queue' = IF queue = <<>> THEN queue ELSE Tail(queue)
    /\ GetReturn(TRUE, loc.gdata)
    /\ UNCHANGED <<cap, peripheralType, second, buffer, head,
                   transmissionActive, hwVars, call, accepted, txLog, offered,
                   irqHist, unread>>

\* tail = (tail + 1) & MASK;   the write of tail; return true;
get_4 ==
    /\ pc = "get_4"
    /\ tail' = AndMask(loc.tmp + 1)
    /\ queue' = IF queue = <<>> THEN queue ELSE Tail(queue)
    /\ GetReturn(TRUE, loc.gdata)
    /\ UNCHANGED <<cap, peripheralType, second, buffer, head,
                   transmissionActive, hwVars, call, accepted, txLog, offered,
                   irqHist, unread>>

----------------------------------------------------------------------------
(* CircularBuffer::clear *)

\* head = 0;
clear_1 ==
    /\ pc = "clear_1"
    /\ head' = 0
    /\ pc' = "clear_2"
    /\ UNCHANGED <<cap, peripheralType, second, buffer, tail,
                   transmissionActive, hwVars, op, loc, res, call, histVars>>

\* variant: the consumer index is left where it is
clear_2_KeepsTail ==
    /\ pc = "clear_2"
    /\ queue' = <<>>
    /\ unread' = {}
    /\ Ret([NoRes EXCEPT !.op = op])
    /\ UNCHANGED <<cap, peripheralType, second, buffer, head, tail,
                   transmissionActive, hwVars, call, accepted, txLog, offered,
                   irqHist>>

\* tail = 0;
clear_2 ==
    /\ pc = "clear_2"
    /\ tail' = 0
    /\ queue' = <<>>
    /\ unread' = {}
    /\ Ret([NoRes EXCEPT !.op = op])
    /\ UNCHANGED <<cap, peripheralType, second, buffer, head,
                   transmissionActive, hwVars, call, accepted, txLog, offered,
                   irqHist>>

----------------------------------------------------------------------------
(* The ring buffer used on its own: put, get and clear called in sequence *)

PutCall(b) ==
    /\ pc = "idle"
    /\ pc' = "put_1"
    /\ op' = "put"
    /\ loc' = [NoLoc EXCEPT !.data = b]
    /\ call' = Snapshot(<<b>>)
    /\ UNCHANGED <<cap, peripheralType, second, bufVars, transmissionActive,
                   hwVars, res, histVars>>

GetCall ==
    /\ pc = "idle"
    /\ pc' = "get_1"
    /\ op' = "get"
    /\ loc' = NoLoc
    /\ call' = Snapshot(<<>>)
    /\ UNCHANGED <<cap, peripheralType, second, bufVars, transmissionActive,
                   hwVars, res, histVars>>

ClearCall ==
    /\ pc = "idle"
    /\ pc' = "clear_1"
    /\ op' = "clear"
    /\ loc' = NoLoc
    /\ call' = Snapshot(<<>>)
    /\ UNCHANGED <<cap, peripheralType, second, bufVars, transmissionActive,
                   hwVars, res, histVars>>

PutSteps == put_1 \/ put_2 \/ put_3 \/ put_4
GetSteps == get_1 \/ get_2 \/ get_3 \/ get_4
ClearSteps == clear_1 \/ clear_2

InitBuf == InitWith(BufCapacities, {"LPUART_1"})

NextBuf ==
    \/ \E b \in Bytes : PutCall(b)
    \/ GetCall
    \/ ClearCall
    \/ PutSteps
    \/ GetSteps
    \/ ClearSteps

SpecBuf == InitBuf /\ [][NextBuf]_vars

----------------------------------------------------------------------------
(* UsartDriver::initialize *)

\* initialize(cfg): initializeLpuart registers the instance and enables the
\* TXE interrupt; initializeUsart enables a clock and nothing else
Initialize ==
    /\ pc = "idle"
    /\ IF peripheralType = "LPUART_1"
       THEN /\ g_lpuart1Instance' = "drv"
            /\ txeie' = TRUE
       ELSE UNCHANGED <<g_lpuart1Instance, txeie>>
    /\ res' = [NoRes EXCEPT !.op = "initialize", !.ok = TRUE]
    /\ UNCHANGED <<cap, peripheralType, second, bufVars, transmissionActive,
                   txe, pc, op, loc, call, histVars>>

----------------------------------------------------------------------------
(* UsartDriver::startTransmission in the foreground *)

\* if (txBuffer.isEmpty()) return;
st_1 ==
    /\ pc = "st_1"
    /\ IF isEmpty
       THEN StartReturn
       ELSE /\ pc' = "st_2"
            /\ UNCHANGED <<op, loc, res>>
    /\ UNCHANGED <<cap, peripheralType, second, bufVars, transmissionActive,
                   hwVars, call, histVars>>

\* variant: the state is not set to Active
st_2_NoActive ==
    /\ pc = "st_2"
    /\ pc' = "get_1"
    /\ UNCHANGED <<cap, peripheralType, second, bufVars, transmissionActive,
                   hwVars, op, loc, res, call, histVars>>

\* transmissionActive = true;   then txBuffer.get(data) is entered
st_2 ==
    /\ pc = "st_2"
    /\ transmissionActive' = TRUE
    /\ pc' = "get_1"
    /\ UNCHANGED <<cap, peripheralType, second, bufVars, hwVars, op, loc, res,
                   call, histVars>>

\* transmitByte(data);
st_tx ==
    /\ pc = "st_tx"
    /\ transmitByte(loc.gdata)
    /\ StartReturn
    /\ UNCHANGED <<cap, peripheralType, second, bufVars, transmissionActive,
                   g_lpuart1Instance, txeie, call, queue, accepted, offered,
                   irqHist, unread>>

StartSteps == st_1 \/ st_2 \/ st_tx

----------------------------------------------------------------------------
(* UsartDriver::sendByte *)

\* sendByte(b) is entered: bool success = txBuffer.put(data);
SendByteCall(b) ==
    /\ pc = "idle"
    /\ offered' = offered + 1
    /\ pc' = "put_1"
    /\ op' = "sendByte"
    /\ loc' = [NoLoc EXCEPT !.data = b]
    /\ call' = Snapshot(<<b>>)
    /\ UNCHANGED <<cap, peripheralType, second, bufVars, transmissionActive,
                   hwVars, res, queue, accepted, txLog, irqHist, unread>>

\* variant: the test of the transmission state is inverted
sb_chk_Inverted ==
    /\ pc = "sb_chk"
    /\ IF loc.success /\ transmissionActive
       THEN /\ pc' = "st_1"
            /\ UNCHANGED <<op, loc, res>>
       ELSE Ret([NoRes EXCEPT !.op = "sendByte", !.ok = loc.success])
    /\ UNCHANGED <<cap, peripheralType, second, bufVars, transmissionActive,
                   hwVars, call, histVars>>

\* if (success && !transmissionActive) startTransmission();  return success;
sb_chk ==
    /\ pc = "sb_chk"
    /\ IF loc.success /\ ~transmissionActive
       THEN /\ pc' = "st_1"
            /\ UNCHANGED <<op, loc, res>>
       ELSE Ret([NoRes EXCEPT !.op = "sendByte", !.ok = loc.success])
    /\ UNCHANGED <<cap, peripheralType, second, bufVars, transmissionActive,
                   hwVars, call, histVars>>

----------------------------------------------------------------------------
(* UsartDriver::sendData *)

\* variant: the null test is missing and the bytes of the argument are queued
SendDataCall_NoNullTest(isNull, arr) ==
    /\ pc = "idle"
    /\ offered' = offered + Len(arr)
    /\ call' = [Snapshot(arr) EXCEPT !.null = isNull]
    /\ pc' = "sd_loop"
    /\ op' = "sendData"
    /\ loc' = [NoLoc EXCEPT !.arg = arr]
    /\ res' = res
    /\ UNCHANGED <<cap, peripheralType, second, bufVars, transmissionActive,
                   hwVars, queue, accepted, txLog, irqHist, unread>>

\* sendData(data, length) is entered; data is nullptr or an array of length
\* bytes.   if (data == nullptr) return 0;   uint16_t sent = 0;
SendDataCall(isNull, arr) ==
    /\ pc = "idle"
    /\ offered' = offered + Len(arr)
    /\ call' = [Snapshot(arr) EXCEPT !.null = isNull]
    /\ IF isNull
       THEN /\ Ret([NoRes EXCEPT !.op = "sendData", !.n = 0])
       ELSE /\ pc' = "sd_loop"
            /\ op' = "sendData"
            /\ loc' = [NoLoc EXCEPT !.arg = arr]
            /\ res' = res
    /\ UNCHANGED <<cap, peripheralType, second, bufVars, transmissionActive,
                   hwVars, queue, accepted, txLog, irqHist, unread>>

\* for (uint16_t i = 0; i < length; i++) { if (txBuffer.put(data[i])) ...
sd_loop ==
    /\ pc = "sd_loop"
    /\ IF loc.i < Len(loc.arg)
       THEN /\ pc' = "put_1"
            /\ loc' = [loc EXCEPT !.data = loc.arg[loc.i + 1]]
       ELSE /\ pc' = "sd_chk"
            /\ loc' = loc
    /\ UNCHANGED <<cap, peripheralType, second, bufVars, transmissionActive,
                   hwVars, op, res, call, histVars>>

\* if (sent > 0 && !transmissionActive) startTransmission();  return sent;
sd_chk ==
    /\ pc = "sd_chk"
    /\ IF loc.sent > 0 /\ ~transmissionActive
       THEN /\ pc' = "st_1"
            /\ UNCHANGED <<op, loc, res>>
       ELSE Ret([NoRes EXCEPT !.op = "sendData", !.n = loc.sent])
    /\ UNCHANGED <<cap, peripheralType, second, bufVars, transmissionActive,
                   hwVars, call, histVars>>

SendSteps == sb_chk \/ sd_loop \/ sd_chk

\* The driver never inspects a byte it queues, so the application's bytes are
\* numbered in the order they are offered: the k-th byte offered is k.  A
\* lost, repeated or reordered byte then shows in txLog.
NextByte == offered + 1
\* the arrays the application hands to sendData
Arrays == {[k \in 1..n |-> offered + k] : n \in 0..MaxLen}
\* the application offers at most MaxOffered bytes in one run
MayOffer(n) == offered + n <= MaxOffered

----------------------------------------------------------------------------
(* The LPUART1 transmit interrupt *)

\* variant: an empty buffer does not end the transmission
handleTxCompleteInterrupt_StaysActive ==
    IF head # tail
    THEN /\ \E d \in SlotValues(tail) : transmitByte(d)
         /\ tail' = AndMask(tail + 1)
         /\ queue' = IF queue = <<>> THEN queue ELSE Tail(queue)
         /\ unread' = unread \ {tail}
         /\ UNCHANGED transmissionActive
    ELSE UNCHANGED <<transmissionActive, tail, queue, txLog, txe, unread>>

\* variant: the state is set to Idle as soon as the last byte is fetched
handleTxCompleteInterrupt_IdleOnLast ==
    IF head # tail
    THEN /\ \E d \in SlotValues(tail) : transmitByte(d)
         /\ tail' = AndMask(tail + 1)
         /\ queue' = IF queue = <<>> THEN queue ELSE Tail(queue)
         /\ unread' = unread \ {tail}
         /\ transmissionActive' =
               (transmissionActive /\ head # AndMask(tail + 1))
    ELSE /\ transmissionActive' = FALSE
         /\ UNCHANGED <<tail, queue, txLog, txe, unread>>

\* UsartDriver::handleTxCompleteInterrupt, run to completion:
\*   if (txBuffer.get(data)) transmitByte(data); else transmissionActive = false;
handleTxCompleteInterrupt ==
    IF head # tail
    THEN /\ \E d \in SlotValues(tail) : transmitByte(d)
         /\ tail' = AndMask(tail + 1)
         /\ queue' = IF queue = <<>> THEN queue ELSE Tail(queue)
         /\ unread' = unread \ {tail}
         /\ UNCHANGED transmissionActive
    ELSE /\ transmissionActive' = FALSE
         /\ UNCHANGED <<tail, queue, txLog, txe, unread>>

\* handleTxCompleteInterrupt of the second instance, on its own fields
handleTxCompleteInterrupt2 ==
    IF second.head # second.tail
    THEN /\ \E d \in (IF second.buffer[second.tail] = Uninit
                      THEN Bytes ELSE {second.buffer[second.tail]}) :
               transmitByte(d)
         /\ second' = [second EXCEPT !.tail = AndMask(second.tail + 1)]
    ELSE /\ second' = [second EXCEPT !.transmissionActive = FALSE]
         /\ UNCHANGED <<txLog, txe>>

\* variant: the registered pointer is used without the null test
handleLpuart1Interrupt_NoNullTest ==
    /\ handleTxCompleteInterrupt
    /\ UNCHANGED second

\* handleLpuart1Interrupt: if (g_lpuart1Instance != nullptr)
\*     static_cast<...>(g_lpuart1Instance)->handleTxCompleteInterrupt();
handleLpuart1Interrupt ==
    IF g_lpuart1Instance # NULL
    THEN IF g_lpuart1Instance = "drv"
         THEN /\ handleTxCompleteInterrupt
              /\ UNCHANGED second
         ELSE /\ handleTxCompleteInterrupt2
              /\ UNCHANGED <<tail, queue, transmissionActive, unread>>
    ELSE UNCHANGED <<tail, queue, txLog, txe, transmissionActive, unread,
                     second>>

\* the LPUART1 interrupt request is raised while TXE is set and enabled
IrqPending == txeie /\ txe

\* bookkeeping of an interrupt: during a call it marks the call as
\* interrupted; between calls the last return value and its snapshot are
\* dropped (they describe the state right after the return).  irqHist is
\* "none" until the first interrupt, "between" while every interrupt so far
\* came between foreground calls, "during" once one preempted a call.
Observed ==
    IF pc = "idle"
    THEN /\ res' = NoRes
         /\ call' = NoCall
         /\ irqHist' = IF irqHist = "none" THEN "between" ELSE irqHist
    ELSE /\ res' = res
         /\ call' = [call EXCEPT !.irq = TRUE]
         /\ irqHist' = "during"

\* USART_HandleLpuart1Interrupt() runs to completion above the foreground
USART_HandleLpuart1Interrupt ==
    /\ handleLpuart1Interrupt
    /\ Observed
    /\ UNCHANGED <<cap, peripheralType, buffer, head, g_lpuart1Instance, txeie,
                   pc, op, loc, accepted, offered>>

\* the LPUART1 interrupt preempts the foreground wherever it is
Interrupt ==
    /\ IrqPending
    /\ USART_HandleLpuart1Interrupt

\* the transmitter moves the byte out of TDR, which sets TXE again
HwShift ==
    /\ ~txe
    /\ txe' = TRUE
    /\ IF pc = "idle"
       THEN res' = NoRes /\ call' = NoCall
       ELSE UNCHANGED <<res, call>>
    /\ UNCHANGED <<cap, peripheralType, second, bufVars, transmissionActive,
                   g_lpuart1Instance, txeie, pc, op, loc, histVars>>

----------------------------------------------------------------------------
(* The driver: foreground sends interleaved with the interrupt *)

Init == InitWith(DrvCapacities, {"LPUART_1"})

Foreground ==
    \/ MayOffer(1) /\ SendByteCall(NextByte)
    \/ \E isNull \in BOOLEAN, arr \in Arrays :
          MayOffer(Len(arr)) /\ SendDataCall(isNull, arr)
    \/ SendSteps
    \/ PutSteps
    \/ StartSteps
    \/ GetSteps

Next ==
    \/ Initialize
    \/ Foreground
    \/ Interrupt
    \/ HwShift

Spec == Init /\ [][Next]_vars

----------------------------------------------------------------------------
(* Claims *)

IsPrefix(s, t) == Len(s) <= Len(t) /\ SubSeq(t, 1, Len(s)) = s

\* no foreground operation in flight and nothing left in the ring buffer
Drained == pc = "idle" /\ isEmpty

\* the positions of the foreground inside its consumption step: after
\* startTransmission's emptiness check, up to the write of tail in get()
FgConsuming == pc \in {"st_2", "get_1", "get_2", "get_3", "get_4"}

\* the interrupt handler runs for the registered driver and calls get()
IsrGet == Interrupt /\ g_lpuart1Instance # NULL

\* C1: FIFO delivery. The bytes passed to transmitByte are at every point a
\* prefix of the bytes accepted by put, in enqueue order, and are all of
\* them once the buffer has drained.
C1_FifoDelivery ==
    /\ IsPrefix(txLog, accepted)
    /\ Drained => txLog = accepted

\* C2: consumer mutual exclusion. The interrupt handler never executes get()
\* while the foreground is inside its own consumption step.
C2_ConsumerMutex == [][IsrGet => ~FgConsuming]_vars

\* C3: the interrupt handler pulls only while the state is Active. Dispatched
\* while the state is Idle it removes no byte and does not transmit.
C3_PullOnlyWhenActive ==
    [][(IsrGet /\ ~transmissionActive) => (tail' = tail /\ txLog' = txLog)]_vars

Min(a, b) == IF a < b THEN a ELSE b

\* a foreground operation has just returned to the application
Returned(o) == pc = "idle" /\ res.op = o

\* C4: space accounting. At every point where no operation is in flight,
\* availableSpace() + size() is C - 1 (on the driver's observers as well) and
\* size() is at most C - 1.
C4_SpaceAccounting ==
    pc = "idle" =>
        /\ availableSpace + size = cap - 1
        /\ getAvailableSpace + getQueueSize = cap - 1
        /\ size <= cap - 1

\* a put, a get or a clear has returned on a buffer whose indices have
\* wrapped and which holds two bytes
C4_Witness ==
    /\ Returned("get")
    /\ res.ok
    /\ cap = 4
    /\ head < tail
    /\ size = 2
    /\ availableSpace = 1

\* C5: capacity and rejection. A sendByte that is not interrupted is accepted
\* exactly when the buffer holds fewer than C - 1 bytes; when it is rejected it
\* returns false and head, tail, the stored bytes, the transmission state and
\* the bytes transmitted are as before the call.  Puts made in a row into an
\* empty buffer (one sendData call) succeed C - 1 times and then fail.
C5_CapacityAndRejection ==
    /\ (Returned("sendByte") /\ ~call.irq) =>
          /\ res.ok <=> (call.size < cap - 1)
          /\ ~res.ok =>
                /\ head = call.head
                /\ tail = call.tail
                /\ buffer = call.buffer
                /\ transmissionActive = call.active
                /\ Len(txLog) = call.txLen
    /\ (Returned("sendData") /\ ~call.null /\ ~call.irq /\ call.size = 0) =>
          /\ res.n = Min(Len(call.arg), cap - 1)
          /\ head = (call.head + res.n) % cap

\* a sendByte was rejected by a full buffer
C5_Witness ==
    /\ Returned("sendByte")
    /\ ~call.irq
    /\ ~res.ok
    /\ irqHist # "during"
    /\ size = cap - 1

\* C6: get() on a non-empty buffer returns true with the oldest byte not yet
\* retrieved, advances tail by one modulo C and reduces size() by one; on an
\* empty buffer it returns false and changes nothing.
C6_Get ==
    Returned("get") =>
        IF call.queue # <<>>
        THEN /\ res.ok
             /\ res.data = Head(call.queue)
             /\ tail = (call.tail + 1) % cap
             /\ size = call.size - 1
             /\ head = call.head
             /\ buffer = call.buffer
        ELSE /\ ~res.ok
             /\ head = call.head
             /\ tail = call.tail
             /\ buffer = call.buffer

\* a get has succeeded with the consumer index wrapping from C - 1 to 0
C6_Witness ==
    /\ Returned("get")
    /\ res.ok
    /\ cap = 4
    /\ call.tail = cap - 1
    /\ tail = 0
    /\ call.size = 2

\* C7: start of a burst. sendByte(b) on an Idle driver with an empty buffer,
\* not interrupted, returns with the state Active, b transmitted exactly once
\* within the call, and the queue empty again.
C7_StartOfBurst ==
    (Returned("sendByte") /\ ~call.active /\ call.head = call.tail /\ ~call.irq) =>
        /\ res.ok
        /\ isTransmissionActive
        /\ Len(txLog) = call.txLen + 1
        /\ txLog[Len(txLog)] = call.arg[1]
        /\ isEmpty
        /\ getQueueSize = 0

\* a second burst has been started after the first one drained
C7_Witness ==
    /\ Returned("sendByte")
    /\ ~call.active
    /\ call.head = call.tail
    /\ ~call.irq
    /\ call.txLen > 0
    /\ transmissionActive
    /\ txLog = accepted

\* C10: partial acceptance of sendData. The count returned is the number of
\* bytes the call put into the buffer, and these are the leading bytes of
\* data, in order (it stops at the first rejected put); when no interrupt
\* fires during the call the count is min(length, S) for the space S
\* available at the call.
C10_PartialAcceptance ==
    (Returned("sendData") /\ ~call.null) =>
        /\ res.n = Len(accepted) - call.accLen
        /\ SubSeq(accepted, call.accLen + 1, Len(accepted))
              = SubSeq(call.arg, 1, res.n)
        /\ ~call.irq => res.n = Min(Len(call.arg), call.space)

\* sendData was given more bytes than there was room for and took some
C10_Witness ==
    /\ Returned("sendData")
    /\ ~call.null
    /\ ~call.irq
    /\ cap = 4
    /\ call.space > 0
    /\ Len(call.arg) > call.space
    /\ res.n = call.space

----------------------------------------------------------------------------
(* Scenario A: capacity 8, the bytes 1..7 sent one at a time *)

ScenarioA == <<1, 2, 3, 4, 5, 6, 7>>

InitA == InitWith({8}, {"LPUART_1"})

NextA ==
    \/ Initialize
    \/ offered < Len(ScenarioA) /\ SendByteCall(ScenarioA[offered + 1])
    \/ sb_chk
    \/ PutSteps
    \/ StartSteps
    \/ GetSteps
    \/ Interrupt
    \/ HwShift

SpecA == InitA /\ [][NextA]_vars

\* the seven calls have returned and no interrupt has fired
ScenarioADone == pc = "idle" /\ offered = Len(ScenarioA) /\ irqHist = "none"

\* C8: drain by interrupt. While interrupts come only between foreground
\* calls, an interrupt that finds bytes queued hands exactly the next accepted
\* byte to transmitByte and leaves the state Active; one that finds the
\* buffer empty sets the state to Idle and transmits nothing, every accepted
\* byte having been transmitted once.
C8_DrainByInterrupt ==
    [][(IsrGet /\ pc = "idle" /\ irqHist # "during") =>
          IF Len(txLog) < Len(accepted)
          THEN /\ transmissionActive
               /\ transmissionActive'
               /\ txLog' = Append(txLog, accepted[Len(txLog) + 1])
               /\ size' = size - 1
          ELSE /\ isEmpty
               /\ ~transmissionActive'
               /\ txLog' = txLog
               /\ txLog = accepted]_vars

\* a burst of three bytes or more has been drained by interrupts
C8_Witness ==
    /\ pc = "idle"
    /\ irqHist = "between"
    /\ cap = 4
    /\ ~transmissionActive
    /\ isEmpty
    /\ Len(accepted) >= 3
    /\ txLog = accepted
    /\ offered = Len(accepted)

\* C9 as stated: in scenario A the first six enqueues succeed and the seventh
\* fails, with availableSpace() == 0 and queuedCount() == 7.
C9_ScenarioA_AsStated ==
    ScenarioADone =>
        /\ accepted = SubSeq(ScenarioA, 1, 6)
        /\ getAvailableSpace = 0
        /\ getQueueSize = 7

\* C9 amended: in scenario A all seven enqueues succeed; the first byte is
\* pulled and transmitted by the first call, so afterwards
\* availableSpace() == 1 and queuedCount() == 6.
C9_ScenarioA ==
    /\ (Returned("sendByte") /\ irqHist = "none") => res.ok
    /\ ScenarioADone =>
          /\ accepted = ScenarioA
          /\ txLog = <<1>>
          /\ isTransmissionActive
          /\ getAvailableSpace = 1
          /\ getQueueSize = 6

\* the seventh call of scenario A has returned
C9_Witness ==
    /\ ScenarioADone
    /\ Returned("sendByte")
    /\ call.arg = <<7>>

----------------------------------------------------------------------------
(* Invalid input to sendData *)

\* sendData was called with a null pointer or with length 0
InvalidSendData == call.null \/ call.arg = <<>>

\* C11: invalid input is a no-op. sendData called with a null pointer or with
\* length 0 returns 0 and accepts no byte; when no interrupt fires during the
\* call, head, tail, the slots, the transmission state and the bytes handed
\* to transmitByte are as they were at the call, in the Idle and in the Active
\* state.
C11_InvalidInputNoOp ==
    (Returned("sendData") /\ InvalidSendData) =>
        /\ res.n = 0
        /\ Len(accepted) = call.accLen
        /\ ~call.irq =>
              /\ head = call.head
              /\ tail = call.tail
              /\ buffer = call.buffer
              /\ transmissionActive = call.active
              /\ Len(txLog) = call.txLen

\* sendData with length 0 has returned on an Active driver with bytes queued
C11_Witness ==
    /\ Returned("sendData")
    /\ ~call.null
    /\ call.arg = <<>>
    /\ ~call.irq
    /\ call.active
    /\ call.size > 0
    /\ g_lpuart1Instance # NULL

\* sendData with a null pointer has returned on an Idle driver
C11_WitnessIdle ==
    /\ Returned("sendData")
    /\ call.null
    /\ Len(call.arg) > 0
    /\ ~call.active

----------------------------------------------------------------------------
(* A driver on USART1..3: initializeUsart registers nothing and enables no   *)
(* interrupt, and the application's LPUART1 vector still calls the entry     *)
(* point                                                                     *)

UsartTypes == PeripheralTypes \ {"LPUART_1"}

InitU == InitWith(DrvCapacities, UsartTypes)

NextU ==
    \/ Initialize
    \/ Foreground
    \/ USART_HandleLpuart1Interrupt

SpecU == InitU /\ [][NextU]_vars

\* C12: unregistered dispatch is a no-op. The entry point invoked while no
\* instance is registered changes no driver's head, tail, slots or
\* transmission state, and hands nothing to transmitByte.
C12_UnregisteredDispatch ==
    [][(USART_HandleLpuart1Interrupt /\ g_lpuart1Instance = NULL) =>
          UNCHANGED <<bufVars, transmissionActive, txLog, txe, second>>]_vars

\* the entry point has run with nothing registered while a driver was Active
\* with a byte queued
C12_Witness ==
    /\ g_lpuart1Instance = NULL
    /\ irqHist # "none"
    /\ pc = "idle"
    /\ transmissionActive
    /\ size > 0

----------------------------------------------------------------------------
(* Two driver instances on LPUART1: the driver above and a second one of the *)
(* same BUFFER_SIZE, whose foreground calls are not preempted.  The second   *)
(* instance sends the byte 0, which the first never does.                    *)

\* variant: the slot is written only while it is empty
Initialize2_FirstWins ==
    /\ pc = "idle"
    /\ g_lpuart1Instance' =
          IF g_lpuart1Instance = NULL THEN "drv2" ELSE g_lpuart1Instance
    /\ txeie' = TRUE
    /\ second' = [second EXCEPT
                     !.replaced = IF g_lpuart1Instance = "drv" THEN "drv" ELSE @]
    /\ res' = [NoRes EXCEPT !.op = "initialize2", !.ok = TRUE]
    /\ UNCHANGED <<cap, peripheralType, bufVars, transmissionActive, txe,
                   pc, op, loc, call, histVars>>

\* initialize(cfg) of the second instance: registerLpuart1Handler(this)
\* stores it over whatever was registered, then the TXE interrupt is enabled
Initialize2 ==
    /\ pc = "idle"
    /\ g_lpuart1Instance' = "drv2"
    /\ txeie' = TRUE
    /\ second' = [second EXCEPT
                     !.replaced = IF g_lpuart1Instance = "drv" THEN "drv" ELSE @]
    /\ res' = [NoRes EXCEPT !.op = "initialize2", !.ok = TRUE]
    /\ UNCHANGED <<cap, peripheralType, bufVars, transmissionActive, txe,
                   pc, op, loc, call, histVars>>

\* sendByte(0) of the second instance, from entry to return:
\* put, and startTransmission when it succeeded on an Idle driver
SendByte2 ==
    /\ pc = "idle"
    /\ LET next_head == AndMask(second.head + 1)
           stored == [second EXCEPT !.buffer[second.head] = 0,
                                    !.head = next_head]
       IN  IF next_head = second.tail
           THEN UNCHANGED <<second, txLog, txe>>
           ELSE IF second.transmissionActive \/ stored.head = stored.tail
                THEN /\ second' = stored
                     /\ UNCHANGED <<txLog, txe>>
                ELSE /\ transmitByte(stored.buffer[stored.tail])
                     /\ second' = [stored EXCEPT
                                      !.transmissionActive = TRUE,
                                      !.tail = AndMask(stored.tail + 1)]
    /\ UNCHANGED <<cap, peripheralType, bufVars, transmissionActive,
                   g_lpuart1Instance, txeie, pc, op, loc, res, call, queue,
                   accepted, offered, irqHist, unread>>

InitReg == InitWith(DrvCapacities, {"LPUART_1"})

NextReg ==
    \/ Initialize
    \/ Initialize2
    \/ offered < MaxOfferedReg /\ SendByteCall(NextByte)
    \/ sb_chk
    \/ PutSteps
    \/ StartSteps
    \/ GetSteps
    \/ SendByte2
    \/ Interrupt
    \/ HwShift

SpecReg == InitReg /\ [][NextReg]_vars

\* the second instance's registration is the current one and it replaced the
\* first instance's
SecondOverFirst == g_lpuart1Instance = "drv2" /\ second.replaced = "drv"

\* C13: one registration slot, overwritten silently. initialize() of the
\* second instance returns true and leaves the second instance registered;
\* from then on every dispatch performs the second instance's consumer-side
\* transition, and no step other than the first instance's own foreground
\* calls changes the first instance's head, tail, slots or transmission
\* state.
C13_SingleSlotOverwrite ==
    /\ [](res.op = "initialize2" => (res.ok /\ g_lpuart1Instance = "drv2"))
    /\ [][(SecondOverFirst /\ pc' = pc) =>
             UNCHANGED <<bufVars, transmissionActive>>]_vars
    /\ [][(SecondOverFirst /\ Interrupt) =>
             IF second.head # second.tail
             THEN /\ second'.tail = AndMask(second.tail + 1)
                  /\ txLog' = Append(txLog, second.buffer[second.tail])
                  /\ second'.transmissionActive = second.transmissionActive
             ELSE /\ ~second'.transmissionActive
                  /\ txLog' = txLog]_vars

\* after the second registration replaced the first, dispatches have drained
\* the second instance to Idle while the first stays Active with a byte queued
C13_Witness ==
    /\ SecondOverFirst
    /\ pc = "idle"
    /\ transmissionActive
    /\ size > 0
    /\ Len(txLog) >= 3
    /\ txLog[Len(txLog)] = 0
    /\ ~second.transmissionActive
    /\ second.head = second.tail
    /\ second.head # 0

----------------------------------------------------------------------------
(* Transmission state and the hardware *)

\* a byte written to the transmit data register has not been taken by the
\* transmitter yet (TXE is clear)
InFlight == ~txe

\* C14: transmission-state invariant, read at the points where no foreground
\* operation is in progress on an initialized driver: while Active a byte is
\* in flight or its ready signal is waiting to be served, while Idle no byte
\* is in flight.
C14_TransmissionStateInvariant ==
    (pc = "idle" /\ g_lpuart1Instance # NULL) =>
        IF transmissionActive
        THEN InFlight \/ IrqPending
        ELSE ~InFlight

----------------------------------------------------------------------------
(* The driver with clearBuffer() among the foreground calls: the operations *)
(* of the API reference (initialize, sendByte, sendData, clearBuffer)        *)

\* clearBuffer() is entered: txBuffer.clear();
ClearBufferCall ==
    /\ pc = "idle"
    /\ pc' = "clear_1"
    /\ op' = "clearBuffer"
    /\ loc' = NoLoc
    /\ call' = Snapshot(<<>>)
    /\ UNCHANGED <<cap, peripheralType, second, bufVars, transmissionActive,
                   hwVars, res, histVars>>

InitC == InitWith(DrvCapacities, {"LPUART_1"})

NextC ==
    \/ Initialize
    \/ offered < MaxOfferedC /\ SendByteCall(NextByte)
    \/ \E isNull \in BOOLEAN, arr \in Arrays :
          offered + Len(arr) <= MaxOfferedC /\ SendDataCall(isNull, arr)
    \/ SendSteps
    \/ PutSteps
    \/ StartSteps
    \/ GetSteps
    \/ ClearBufferCall
    \/ ClearSteps
    \/ Interrupt
    \/ HwShift

SpecC == InitC /\ [][NextC]_vars

\* C15: ownership of the state transitions. Idle -> Active happens only at
\* startTransmission's assignment in the foreground, inside a sendByte or
\* sendData call one of whose puts succeeded while the state was Idle;
\* Active -> Idle happens only in the interrupt handler, and only when it
\* finds the buffer empty.  Failed sends, clearBuffer and every other step
\* leave the state as it is.
C15_TransitionOwnership ==
    [][/\ (~transmissionActive /\ transmissionActive') =>
             /\ pc = "st_2"
             /\ op \in {"sendByte", "sendData"}
             /\ call.putIdle
       /\ (transmissionActive /\ ~transmissionActive') =>
             /\ Interrupt
             /\ isEmpty]_vars

\* a second burst has been started by sendData after the handler ended the
\* first one
C15_Witness ==
    /\ Returned("sendData")
    /\ ~call.active
    /\ call.putIdle
    /\ call.txLen > 0
    /\ transmissionActive
    /\ irqHist # "none"

----------------------------------------------------------------------------
(* clear() *)

\* C16 as stated: clear() on a buffer that is already empty, whatever the
\* value of its two equal indices, leaves head, tail and the slots as they
\* were.
C16_ClearIdempotent_AsStated ==
    (Returned("clear") /\ call.head = call.tail) =>
        /\ head = call.head
        /\ tail = call.tail
        /\ buffer = call.buffer

\* C16 amended: clear() leaves both indices at 0 and the slots untouched. On
\* a buffer that is already empty what the observers report is unchanged
\* (empty, size() == 0, availableSpace() == C - 1) while the indices move to 0
\* from wherever they were; on a buffer that has just been cleared nothing
\* changes at all, so clear() twice is clear() once.
C16_ClearIdempotent ==
    Returned("clear") =>
        /\ head = 0
        /\ tail = 0
        /\ buffer = call.buffer
        /\ call.head = call.tail =>
              /\ isEmpty
              /\ size = call.size
              /\ availableSpace = call.space
              /\ queue = call.queue
        /\ (call.head = 0 /\ call.tail = 0) =>
              /\ head = call.head
              /\ tail = call.tail

\* clear() has returned on a buffer that was empty with both indices at 2
C16_Witness ==
    /\ Returned("clear")
    /\ cap = 4
    /\ call.head = 2
    /\ call.tail = 2
    /\ call.size = 0

----------------------------------------------------------------------------
(* The ring buffer alone between a producer and a consumer: the main thread  *)
(* only calls put, one access per step, and an interrupt handler only calls  *)
(* get, run to completion above it.  The handler's bytes are kept in txLog.  *)
(* The k-th byte accepted is k.                                              *)

\* the handler: uint8_t data; if (txBuffer.get(data)) the byte is kept
ConsumerGet ==
    /\ Len(txLog) < MaxTx
    /\ IF head # tail
       THEN /\ \E d \in SlotValues(tail) : txLog' = Append(txLog, d)
            /\ tail' = AndMask(tail + 1)
            /\ queue' = IF queue = <<>> THEN queue ELSE Tail(queue)
            /\ unread' = unread \ {tail}
       ELSE UNCHANGED <<tail, queue, txLog, unread>>
    /\ Observed
    /\ UNCHANGED <<cap, peripheralType, second, buffer, head,
                   transmissionActive, hwVars, pc, op, loc, accepted, offered>>

\* the main thread calls put with the next byte
ProducerPut == PutCall(Len(txLog) + Len(queue) + 1)

InitPC == InitWith(BufCapacities, {"LPUART_1"})

NextPC ==
    \/ ProducerPut
    \/ PutSteps
    \/ ConsumerGet

SpecPC == InitPC /\ [][NextPC]_vars

\* C17: producer/consumer safety of the ring buffer alone. With put preempted
\* by get between any two of its accesses, the bytes got are the bytes
\* accepted, in order, from the first on (a prefix of 1, 2, 3, ...); size()
\* is at every point the number of bytes accepted and not yet got, and the
\* slots from tail on hold exactly these bytes.
C17_ProducerConsumerSafety ==
    /\ \A i \in 1..Len(txLog) : txLog[i] = i
    /\ size = Len(queue)
    /\ \A i \in 1..Len(queue) :
          /\ queue[i] = Len(txLog) + i
          /\ buffer[(tail + i - 1) % cap] = queue[i]

\* a put that a get preempted has succeeded after the indices wrapped
C17_Witness ==
    /\ Returned("put")
    /\ res.ok
    /\ call.irq
    /\ cap = 4
    /\ Len(txLog) >= 3
    /\ head < tail
    /\ size = 2

----------------------------------------------------------------------------
(* Transmission on USART1..3 *)

\* the bytes written to the peripheral's transmit data register: transmitByte
\* writes it in the LPUART_1 case only
tdrLog == IF peripheralType = "LPUART_1" THEN txLog ELSE <<>>

\* C18: all four peripheral types transmit. Once the queue has drained every
\* accepted byte has been written to the peripheral's transmit data register,
\* and an Active driver has a byte in flight or a transmit interrupt pending
\* that will take it back to Idle.
C18_AllTypesTransmit ==
    Drained =>
        /\ tdrLog = accepted
        /\ transmissionActive => (InFlight \/ IrqPending)

----------------------------------------------------------------------------
(* Index ownership *)

InPut == pc \in {"put_1", "put_2", "put_3", "put_4"}
InGet == pc \in {"get_1", "get_2", "get_3", "get_4"}

\* C19: index ownership. No step of put changes tail and no step of get
\* changes head; put changes head only in its last step, by one modulo C,
\* and then returns true, and get changes tail likewise; a put or get that
\* returns false has changed neither index.  Outside clear(), head changes
\* in no other step than put's and tail in no other step than get's.
C19_IndexOwnership ==
    /\ [][/\ InPut =>
                /\ tail' = tail
                /\ head' # head =>
                      /\ head' = (head + 1) % cap
                      /\ pc' = "idle" /\ res'.op = "put" /\ res'.ok
          /\ InGet =>
                /\ head' = head
                /\ tail' # tail =>
                      /\ tail' = (tail + 1) % cap
                      /\ pc' = "idle" /\ res'.op = "get" /\ res'.ok
          /\ head' # head => pc \in {"put_4", "clear_1"}
          /\ tail' # tail => pc \in {"get_4", "clear_2"}]_vars
    /\ [](Returned("put") =>
             /\ tail = call.tail
             /\ head = IF res.ok THEN (call.head + 1) % cap ELSE call.head)
    /\ [](Returned("get") =>
             /\ head = call.head
             /\ tail = IF res.ok THEN (call.tail + 1) % cap ELSE call.tail)

\* a put has succeeded with the producer index wrapping from C - 1 to 0,
\* the consumer index staying at 2
C19_Witness ==
    /\ Returned("put")
    /\ res.ok
    /\ cap = 4
    /\ call.head = cap - 1
    /\ head = 0
    /\ call.tail = 2
    /\ tail = 2

----------------------------------------------------------------------------
(* Overwriting *)

----------------------------------------------------------------------------
(* Stranded bytes *)

\* C21: no stranded bytes. At every point where no foreground operation and
\* no interrupt handler is in progress, a non-empty ring buffer implies the
\* state Active.
C21_NoStrandedBytes ==
    (pc = "idle" /\ ~isEmpty) => transmissionActive

----------------------------------------------------------------------------
(* The transmit data register *)

\* C22: no overwrite of the hardware transmit register. Every step that hands
\* a byte to transmitByte is taken with the register ready (TXE set): the
\* byte written before it has been taken by the transmitter.
C22_NoRegisterOverwrite ==
    [][txLog' # txLog => txe]_vars

----------------------------------------------------------------------------
(* The LPUART1 driver under fairness: the application initializes the driver *)
(* before it sends, a foreground call in progress keeps running, the         *)
(* transmitter takes the byte out of the data register, and a pending        *)
(* transmit interrupt is delivered.                                          *)

InitF == InitWith(DrvCapacities, {"LPUART_1"})

ForegroundF ==
    \/ /\ g_lpuart1Instance # NULL
       /\ offered < MaxOfferedF
       /\ SendByteCall(NextByte)
    \/ \E arr \in Arrays :
          /\ g_lpuart1Instance # NULL
          /\ offered + Len(arr) <= MaxOfferedF
          /\ SendDataCall(FALSE, arr)

StepsF == SendSteps \/ PutSteps \/ StartSteps \/ GetSteps

NextF ==
    \/ Initialize
    \/ ForegroundF
    \/ StepsF
    \/ Interrupt
    \/ HwShift

SpecF ==
    /\ InitF
    /\ [][NextF]_vars
    /\ WF_vars(Initialize)
    /\ WF_vars(StepsF)
    /\ WF_vars(Interrupt)
    /\ WF_vars(HwShift)

InSeq(k, s) == \E i \in 1..Len(s) : s[i] = k

\* the run has reached the number of transmitByte calls that are followed
TxBound == Len(txLog) = MaxTx

\* C23: eventual drain on LPUART1. Under fair delivery of the transmit
\* interrupt every byte accepted by a send operation is eventually handed to
\* transmitByte, and once the foreground has stopped enqueuing the driver
\* reaches Idle with an empty buffer and stays there.
C23_EventualDrain ==
    /\ \A k \in 1..MaxOfferedF :
          InSeq(k, accepted) ~> (InSeq(k, txLog) \/ TxBound)
    /\ <>[]((~transmissionActive /\ isEmpty) \/ TxBound)

----------------------------------------------------------------------------
(* The dispatch and the buffer size of the registered driver.               *)
(* handleLpuart1Interrupt casts the registered pointer to UsartDriver<256>* *)
(* whatever the size of the registered driver is.  The sizes are scaled by  *)
(* 1/32: 64, 128, 256, 512, 1024 become 2, 4, 8, 16, 32.  The members are   *)
(* laid out in declaration order; counting cells from the first slot of     *)
(* txBuffer, a driver of size n has its slots at 0..n-1, head at n, tail at *)
(* n+1 and transmissionActive at n+2 (one cell per member).                 *)

SupportedSizes == {2, 4, 8, 16, 32}
DispatchSize == 8

Arb == 0..MaxArb

\* what a read of cell i of the registered object can yield: the member that
\* lies there, any value for an indeterminate slot and for memory outside
\* the object
Reads(i) ==
    IF i < cap THEN (IF buffer[i] = Uninit THEN Arb ELSE {buffer[i]})
    ELSE IF i = cap THEN {head}
    ELSE IF i = cap + 1 THEN {tail}
    ELSE IF i = cap + 2 THEN {IF transmissionActive THEN 1 ELSE 0}
    ELSE Arb

\* a write of v to cell i of the registered object; a write outside the
\* object leaves the object as it is
Writes(i, v) ==
    /\ buffer' = IF i < cap THEN [buffer EXCEPT ![i] = v] ELSE buffer
    /\ head' = IF i = cap THEN v ELSE head
    /\ tail' = IF i = cap + 1 THEN v ELSE tail
    /\ transmissionActive' =
          IF i = cap + 2 THEN v # 0 ELSE transmissionActive

\* UsartDriver<256>::handleTxCompleteInterrupt run on the registered object:
\* head, tail and transmissionActive are taken at the offsets they have in
\* a driver of DispatchSize, and tail wraps modulo DispatchSize
handleTxCompleteInterrupt256 ==
    IF cap = DispatchSize
    THEN /\ handleTxCompleteInterrupt
         /\ UNCHANGED <<buffer, head>>
    ELSE /\ \E h \in Reads(DispatchSize), t \in Reads(DispatchSize + 1) :
              IF h # t
              THEN /\ \E d \in Reads(t) : transmitByte(d)
                   /\ Writes(DispatchSize + 1,
                             BitAnd((t + 1) % Word, DispatchSize - 1))
              ELSE /\ Writes(DispatchSize + 2, 0)
                   /\ UNCHANGED <<txLog, txe>>
         /\ UNCHANGED <<queue, unread>>

\* handleLpuart1Interrupt with the cast it makes
handleLpuart1Interrupt256 ==
    IF g_lpuart1Instance # NULL
    THEN handleTxCompleteInterrupt256
    ELSE UNCHANGED <<buffer, head, tail, queue, txLog, txe,
                     transmissionActive, unread>>

USART_HandleLpuart1Interrupt256 ==
    /\ handleLpuart1Interrupt256
    /\ Observed
    /\ UNCHANGED <<cap, peripheralType, second, g_lpuart1Instance, txeie,
                   pc, op, loc, accepted, offered>>

Interrupt256 ==
    /\ IrqPending
    /\ USART_HandleLpuart1Interrupt256

InitD == InitWith(SupportedSizes, {"LPUART_1"})

ForegroundD ==
    \/ /\ offered < MaxOfferedD
       /\ SendByteCall(NextByte)
    \/ \E arr \in Arrays :
          /\ offered + Len(arr) <= MaxOfferedD
          /\ SendDataCall(FALSE, arr)

NextD ==
    \/ Initialize
    \/ ForegroundD
    \/ StepsF
    \/ Interrupt256
    \/ HwShift

SpecD == InitD /\ [][NextD]_vars

\* the consumer-side transition on the driver's own members, for its own
\* capacity
OwnConsumerStep ==
    /\ head' = head
    /\ buffer' = buffer
    /\ IF head # tail
       THEN /\ tail' = (tail + 1) % cap
            /\ transmissionActive' = transmissionActive
            /\ \E d \in SlotValues(tail) : txLog' = Append(txLog, d)
       ELSE /\ tail' = tail
            /\ transmissionActive' = FALSE
            /\ txLog' = txLog

\* C24: dispatch respects the registered instance's buffer size. For a
\* driver of any supported size registered for LPUART1, an interrupt
\* dispatch performs the consumer-side transition on that driver's own head,
\* tail and transmission state and wraps tail modulo that driver's own
\* capacity.
C24_DispatchOwnFields ==
    [][Interrupt256 => OwnConsumerStep]_vars

----------------------------------------------------------------------------
(* clearBuffer while the state is Idle *)

\* C25: clearBuffer is safe when transmission is inactive. If clearBuffer()
\* is called while the state is Idle then, whatever transmit interrupts
\* interleave with the call, no byte has been handed to transmitByte when it
\* returns, the state is still Idle and the queue is empty
\* (getQueueSize() == 0, getAvailableSpace() == C - 1).
C25_ClearWhenIdle ==
    (Returned("clearBuffer") /\ ~call.active) =>
        /\ Len(txLog) = call.txLen
        /\ ~transmissionActive
        /\ size = 0
        /\ availableSpace = cap - 1

====
